---------------------------- MODULE Spec2Model ----------------------------
(***************************************************************************)
(* A model of the niriss_reduction helpers:                                *)
(*   nirhiss/utils.py   scaling_image_regions, chromatic_writer,           *)
(*                      exotep_to_ers_format, bin_at_resolution,           *)
(*                      get_MAD_sigma                                      *)
(*   niriss/plotting.py stacked_transits                                   *)
(* Every routine is a synchronous call; one action models one whole call   *)
(* and records its arguments in `call` and its result (a returned value or *)
(* the exception it raised) in `outcome`.  `fs` is the file system the     *)
(* routines read and write, `plotted` the series handed to ax.errorbar and *)
(* `texts` the annotations handed to ax.text.                              *)
(*                                                                         *)
(* Floating-point numbers are modelled as exact rationals <<num, den>>     *)
(* with the IEEE special values NaN = <<0,0>>, +inf = <<1,0>> and          *)
(* -inf = <<-1,0>>.  Rounding and the sign of zero are not modelled.       *)
(***************************************************************************)
EXTENDS Integers, Sequences, FiniteSets, TLC

VARIABLES call, outcome, fs, plotted, texts

vars == <<call, outcome, fs, plotted, texts>>

(***************************************************************************)
(* numpy float arithmetic                                                  *)
(***************************************************************************)
NaN == <<0, 0>>

Abs(n) == IF n < 0 THEN -n ELSE n

Sign(n) == IF n < 0 THEN -1 ELSE IF n > 0 THEN 1 ELSE 0

RECURSIVE GCD(_, _)
GCD(a, b) == IF b = 0 THEN a ELSE GCD(b, a % b)

\* The canonical form of n/d: positive reduced denominator, or a special value.
Norm(n, d) ==
    IF d = 0 THEN <<Sign(n), 0>>
    ELSE LET g == GCD(Abs(n), Abs(d))
         IN  <<Sign(d) * (n \div g), Abs(d) \div g>>

F(n) == <<n, 1>>

IsNaN(a) == a = NaN

IsFinite(a) == a[2] # 0

FAdd(a, b) ==
    IF IsNaN(a) \/ IsNaN(b) THEN NaN
    ELSE IF ~IsFinite(a) /\ ~IsFinite(b) THEN (IF a = b THEN a ELSE NaN)
    ELSE IF ~IsFinite(a) THEN a
    ELSE IF ~IsFinite(b) THEN b
    ELSE LET g == GCD(a[2], b[2])
         IN  Norm(a[1] * (b[2] \div g) + b[1] * (a[2] \div g), (a[2] \div g) * b[2])

FNeg(a) == <<-a[1], a[2]>>

FSub(a, b) == FAdd(a, FNeg(b))

\* Common factors are taken out before the products, which keeps them small.
FMul(a, b) ==
    IF IsNaN(a) \/ IsNaN(b) THEN NaN
    ELSE IF ~IsFinite(a) \/ ~IsFinite(b) THEN <<Sign(a[1]) * Sign(b[1]), 0>>
    ELSE LET g1 == GCD(Abs(a[1]), b[2])
             g2 == GCD(Abs(b[1]), a[2])
         IN  Norm((a[1] \div g1) * (b[1] \div g2), (a[2] \div g2) * (b[2] \div g1))

\* numpy division: x/0 is +-inf and 0/0 is NaN (a RuntimeWarning, no exception).
FDiv(a, b) ==
    IF IsNaN(a) \/ IsNaN(b) THEN NaN
    ELSE IF ~IsFinite(a) /\ ~IsFinite(b) THEN NaN
    ELSE IF ~IsFinite(a) THEN <<a[1] * (IF b[1] < 0 THEN -1 ELSE 1), 0>>
    ELSE IF ~IsFinite(b) THEN F(0)
    ELSE IF b[1] = 0 THEN <<Sign(a[1]), 0>>
    ELSE FMul(a, <<Sign(b[1]) * b[2], Abs(b[1])>>)

\* a < b; any comparison with NaN is False.
FLt(a, b) ==
    IF IsNaN(a) \/ IsNaN(b) THEN FALSE
    ELSE IF ~IsFinite(a) /\ ~IsFinite(b) THEN a[1] < b[1]
    ELSE IF ~IsFinite(a) THEN a[1] < 0
    ELSE IF ~IsFinite(b) THEN b[1] > 0
    ELSE LET g == GCD(a[2], b[2])
         IN  a[1] * (b[2] \div g) < b[1] * (a[2] \div g)

FLe(a, b) == FLt(a, b) \/ (~IsNaN(a) /\ a = b)

\* np.nansum over the values of a sequence: NaN counts as 0, empty sums to 0.
RECURSIVE NanSum(_)
NanSum(s) ==
    IF s = <<>> THEN F(0)
    ELSE FAdd(IF IsNaN(Head(s)) THEN F(0) ELSE Head(s), NanSum(Tail(s)))

\* Insertion of x into the ascending sequence s.
RECURSIVE Insert(_, _)
Insert(x, s) ==
    IF s = <<>> THEN <<x>>
    ELSE IF FLe(x, Head(s)) THEN <<x>> \o s
    ELSE <<Head(s)>> \o Insert(x, Tail(s))

RECURSIVE SortAsc(_)
SortAsc(s) == IF s = <<>> THEN <<>> ELSE Insert(Head(s), SortAsc(Tail(s)))

\* np.nanmedian: the median of the non-NaN values, the mean of the two middle
\* ones for an even count, NaN when none is left.
NanMedian(s) ==
    LET kept == SortAsc(SelectSeq(s, LAMBDA x : ~IsNaN(x)))
        n    == Len(kept)
    IN  IF n = 0 THEN NaN
        ELSE IF n % 2 = 1 THEN kept[(n + 1) \div 2]
        ELSE FDiv(FAdd(kept[n \div 2], kept[n \div 2 + 1]), F(2))

\* np.argmin (0-based): the first NaN if there is one, else the first minimum.
ArgMin(s) ==
    IF \E i \in 1..Len(s) : IsNaN(s[i])
    THEN (CHOOSE i \in 1..Len(s) : IsNaN(s[i]) /\ \A k \in 1..(i - 1) : ~IsNaN(s[k])) - 1
    ELSE (CHOOSE i \in 1..Len(s) :
              /\ \A k \in 1..Len(s) : FLe(s[i], s[k])
              /\ \A k \in 1..(i - 1) : FLt(s[i], s[k])) - 1

(***************************************************************************)
(* Python name resolution                                                  *)
(***************************************************************************)
\* The names bound at module level in nirhiss/utils.py.
ModuleGlobals ==
    {"np", "tqdm", "Table", "ts", "__all__", "scaling_image_regions",
     "chromatic_writer", "exotep_to_ers_format", "bin_at_resolution",
     "get_MAD_sigma"}

\* A name read in a function body is bound when it is a parameter (a field of
\* the call's environment env) or a module global; otherwise the read raises
\* NameError.
IsBound(env, name) == name \in DOMAIN env \/ name \in ModuleGlobals

NameError(name) == [kind |-> "NameError", name |-> name]

Return(v) == [kind |-> "return", value |-> v]

None == "None"

\* The outcome of a call that has not run yet.
Pending == [kind |-> "pending"]


(***************************************************************************)
(* nirhiss/utils.py: scaling_image_regions                                 *)
(***************************************************************************)
ImgRows == 2
ImgCols == 2
MaxFrames == 6

\* The pixels (row, column; 1-based) of the numpy slice [x1:x2, y1:y2] of an
\* image: bounds are 0-based, the upper one exclusive, and clipped to the image.
Region(img, x1, x2, y1, y2) ==
    {<<r, c>> \in (1..Len(img)) \X (1..Len(img[1])) :
        x1 < r /\ r <= x2 /\ y1 < c /\ c <= y2}

\* The pixels of a set in row-major order.
RECURSIVE Flatten(_)
Flatten(P) ==
    IF P = {} THEN <<>>
    ELSE LET p == CHOOSE q \in P :
                    \A o \in P : q[1] < o[1] \/ (q[1] = o[1] /\ q[2] <= o[2])
         IN  <<p>> \o Flatten(P \ {p})

\* diff**2 over the region for the candidate v: (frame - bkg*v)**2 per pixel.
Diff2(frame, bkg, P, v) ==
    LET px == Flatten(P)
    IN  [k \in 1..Len(px) |->
            LET d == FSub(frame[px[k][1]][px[k][2]],
                          FMul(bkg[px[k][1]][px[k][2]], v))
            IN  FMul(d, d)]

\* rms[i]**2 = np.nansum(diff**2)/shape.  The square root is left out: it is
\* monotone on the non-negative values and keeps NaN, so np.argmin picks the
\* same index.
Rms2(frame, bkg, x1, x2, y1, y2, v) ==
    FDiv(NanSum(Diff2(frame, bkg, Region(bkg, x1, x2, y1, y2), v)),
         F((x2 - x1) * (y2 - y1)))

\* scaling_vals[j] = vals[np.argmin(rms)]
BestScale(frame, bkg, x1, x2, y1, y2, vals) ==
    vals[ArgMin([i \in 1..Len(vals) |-> Rms2(frame, bkg, x1, x2, y1, y2, vals[i])]) + 1]

\* The number of frames the loop runs over in preview mode.
TestLength == 5

\* Lines 47-66, given the value the name `integrations` is bound to.
ScalingBody(integrations, bkg, x1, x2, y1, y2, vals, test) ==
    LET N      == Len(integrations)
        length == IF test THEN TestLength ELSE N
        scaling_vals ==
            [j \in 1..N |->
                IF j <= length
                THEN BestScale(integrations[j], bkg, x1, x2, y1, y2, vals)
                ELSE F(0)]
    IN  IF length > N THEN [kind |-> "IndexError", index |-> N]
        ELSE Return(NanMedian(scaling_vals))

\* The value a name of the body is read as: the parameter of that name.
Lookup(env, name) == env[name]

\* One call.  The body reads `integrations` (line 47) before anything else
\* that can fail; the parameter is spelled `integraions` (line 9).
ScalingOutcome(env) ==
    IF ~IsBound(env, "integrations") THEN NameError("integrations")
    ELSE ScalingBody(Lookup(env, "integrations"), env.bkg, env.x1, env.x2,
                     env.y1, env.y2, env.vals, env.test)

ScaleImage(img, k) ==
    [r \in 1..Len(img) |-> [c \in 1..Len(img[r]) |-> FMul(img[r][c], F(k))]]

Ones == [r \in 1..ImgRows |-> [c \in 1..ImgCols |-> F(1)]]

\* Backgrounds: flat, and flat with one not-a-number pixel.
Backgrounds == {Ones, [Ones EXCEPT ![1][1] = NaN]}

\* Frames: noise-free multiples of the background, and an all-NaN frame.
FramesOf(bkg) ==
    {ScaleImage(bkg, k) : k \in {1, 3}}
        \cup {[r \in 1..ImgRows |-> [c \in 1..ImgCols |-> NaN]]}

\* Stacks of up to MaxFrames frames: m frames a followed by n - m frames b.
StacksOf(bkg) ==
    {[j \in 1..n |-> IF j <= m[1] THEN m[2] ELSE m[3]] :
        n \in 0..MaxFrames, m \in (0..MaxFrames) \X FramesOf(bkg) \X FramesOf(bkg)}

Grids == {<<F(0), F(1), F(2), F(3), F(4), F(5)>>, <<F(2), F(4)>>}

\* The calls on images of the given size.
ScalingCalls(rows, cols) ==
    {[fn |-> "scaling_image_regions",
      args |-> [integraions |-> c[8], bkg |-> c[1], x1 |-> c[2], x2 |-> c[3],
                y1 |-> c[4], y2 |-> c[5], vals |-> c[6], test |-> c[7]]] :
        c \in UNION {{b} \X (0..rows) \X (0..rows) \X (0..cols)
                         \X (0..cols) \X Grids \X BOOLEAN \X StacksOf(b) :
                     b \in Backgrounds}}

scaling_image_regions ==
    /\ call.fn = "scaling_image_regions"
    /\ outcome = Pending
    /\ outcome' = ScalingOutcome(call.args)
    /\ UNCHANGED <<call, fs, plotted, texts>>

(***************************************************************************)
(* nirhiss/utils.py: bin_at_resolution, get_MAD_sigma                      *)
(***************************************************************************)
\* transitspectroscopy.utils.bin_at_resolution: an external routine, kept as
\* the uninterpreted tuple of its outputs for the arguments it was given.
ts_bin_at_resolution(wavelength, depths, R, method) ==
    [k \in 1..3 |-> [out |-> <<"wout", "dout", "derrout">>[k],
                     of |-> <<wavelength, depths, R, method>>]]

\* transitspectroscopy.utils.get_mad_sigma: an external routine, kept
\* uninterpreted.
ts_get_mad_sigma(x, median) == [out |-> "mad_sigma", of |-> <<x, median>>]

BinOutcome(env) ==
    IF ~IsBound(env, "wavelength") THEN NameError("wavelength")
    ELSE LET outputs == ts_bin_at_resolution(Lookup(env, "wavelength"),
                                             env.depths, env.R, env.method)
         IN  Return(<<outputs[1], outputs[2], outputs[3]>>)

\* The body binds mad and ends without a return statement.
MadOutcome(env) ==
    LET mad == ts_get_mad_sigma(env.x, env.median)
    IN  Return(None)

MaxSpectrum == 2

Spectra == UNION {[1..n -> {F(1), F(2)}] : n \in 0..MaxSpectrum}

BinCalls ==
    {[fn |-> "bin_at_resolution",
      args |-> [wavelengths |-> c[1], depths |-> c[2], R |-> c[3], method |-> c[4]]] :
        c \in Spectra \X Spectra \X {50, 100} \X {"mean", "median"}}

bin_at_resolution ==
    /\ call.fn = "bin_at_resolution"
    /\ outcome = Pending
    /\ outcome' = BinOutcome(call.args)
    /\ UNCHANGED <<call, fs, plotted, texts>>

MadCalls ==
    {[fn |-> "get_MAD_sigma", args |-> [x |-> c[1], median |-> c[2]]] :
        c \in Spectra \X {F(1), F(2)}}

get_MAD_sigma ==
    /\ call.fn = "get_MAD_sigma"
    /\ outcome = Pending
    /\ outcome' = MadOutcome(call.args)
    /\ UNCHANGED <<call, fs, plotted, texts>>

(***************************************************************************)
(* The calls of nirhiss/utils.py that touch no file: one call per          *)
(* behaviour, its arguments drawn by Init.                                 *)
(***************************************************************************)
Init ==
    /\ call \in ScalingCalls(ImgRows, ImgCols) \cup BinCalls \cup MadCalls
    /\ outcome = Pending
    /\ fs = <<>>
    /\ plotted = <<>>
    /\ texts = <<>>

Next == scaling_image_regions \/ bin_at_resolution \/ get_MAD_sigma

Spec == Init /\ [][Next]_vars

(***************************************************************************)
(* Claims about scaling_image_regions                                      *)
(***************************************************************************)
ScalingDone == call.fn = "scaling_image_regions" /\ outcome # Pending

WellFormed(a) == a.x1 < a.x2 /\ a.y1 < a.y2

\* The sum of squared residuals of a frame against v*bkg over the region,
\* not-a-number pixels ignored.
Residual(a, frame, v) ==
    NanSum(Diff2(frame, a.bkg, Region(a.bkg, a.x1, a.x2, a.y1, a.y2), v))

\* The candidate of minimal residual, the smallest index winning a tie.
ClaimedBest(a, frame) ==
    LET i == CHOOSE i \in 1..Len(a.vals) :
                /\ \A k \in 1..Len(a.vals) :
                      FLe(Residual(a, frame, a.vals[i]), Residual(a, frame, a.vals[k]))
                /\ \A k \in 1..(i - 1) :
                      FLt(Residual(a, frame, a.vals[i]), Residual(a, frame, a.vals[k]))
    IN  a.vals[i]

ClaimedMedian(a, n) ==
    NanMedian([j \in 1..n |-> ClaimedBest(a, a.integraions[j])])

\* The frames are all k*bkg, k is on the grid, and bkg is a non-zero number
\* somewhere in a well-formed region.
NoiseFree(a, k) ==
    /\ WellFormed(a)
    /\ Len(a.integraions) >= 1
    /\ \E i \in 1..Len(a.vals) : a.vals[i] = k
    /\ \A j \in 1..Len(a.integraions) :
          \A r \in 1..ImgRows, c \in 1..ImgCols :
             a.integraions[j][r][c] = FMul(a.bkg[r][c], k)
    /\ \E p \in Region(a.bkg, a.x1, a.x2, a.y1, a.y2) :
          ~IsNaN(a.bkg[p[1]][p[2]]) /\ a.bkg[p[1]][p[2]] # F(0)

\* C1: with test=False, noise-free frames k*bkg (k on the grid, bkg non-zero
\* in a non-degenerate region) make the call return exactly k.
C1_ReturnsTrueScale ==
    (ScalingDone /\ ~call.args.test) =>
        \A k \in {F(n) : n \in 0..5} :
            NoiseFree(call.args, k) => outcome = Return(k)

\* C2: with test=False the call returns the median over all frames of the
\* per-frame candidate of minimal residual, the first index winning ties.
C2_MedianOfBestScales ==
    (ScalingDone /\ ~call.args.test) =>
        outcome = Return(ClaimedMedian(call.args, Len(call.args.integraions)))

\* C3: with test=True and at least 5 frames the call returns the median of
\* the best scales of frames 0..4 only.
C3_PreviewMedianOfFirstFive ==
    (ScalingDone /\ call.args.test /\ Len(call.args.integraions) >= 5) =>
        outcome = Return(ClaimedMedian(call.args, 5))

\* C4: a malformed region (x1 >= x2 or y1 >= y2) ends in an invalid-argument
\* error and never in a returned number.
C4_MalformedRegionRejected ==
    (ScalingDone /\ ~WellFormed(call.args)) => outcome.kind = "InvalidArgument"

(***************************************************************************)
(* Claims about the delegation wrappers                                    *)
(***************************************************************************)
\* C10: bin_at_resolution returns the external routine's first three outputs
\* for its four arguments, and get_MAD_sigma returns the external value.
C10_WrappersForward ==
    /\ (call.fn = "bin_at_resolution" /\ outcome # Pending) =>
          LET a == call.args
              o == ts_bin_at_resolution(a.wavelengths, a.depths, a.R, a.method)
          IN  outcome = Return(<<o[1], o[2], o[3]>>)
    /\ (call.fn = "get_MAD_sigma" /\ outcome # Pending) =>
          outcome = Return(ts_get_mad_sigma(call.args.x, call.args.median))

(***************************************************************************)
(* nirhiss/utils.py: exotep_to_ers_format                                  *)
(***************************************************************************)
MaxRows == 2

\* The columns the body reads of each row, in the order it reads them.
ExotepColumns == <<"wave", "waveMin", "yval", "yerrLow">>

ErsColumns == <<"wave", "wave_err", "dppm", "dppm_err", "order">>

Range(s) == {s[i] : i \in 1..Len(s)}

Absent == [kind |-> "absent"]

\* A csv file: its column names and its rows, each a function on the columns.
Csv(cols, rows) == [kind |-> "csv", cols |-> cols, rows |-> rows]

\* table[name]: astropy raises KeyError for a column the table does not have.
KeyError(name) == [kind |-> "KeyError", key |-> name]

FileNotFoundError(name) == [kind |-> "FileNotFoundError", file |-> name]

\* The first of the columns read per row that the table lacks, 0 if none.
FirstMissing(table) ==
    IF \A k \in 1..4 : ExotepColumns[k] \in table.cols THEN 0
    ELSE CHOOSE k \in 1..4 :
            /\ ExotepColumns[k] \notin table.cols
            /\ \A m \in 1..(k - 1) : ExotepColumns[m] \in table.cols

\* The wavelength below which order-2 rows are kept: 0.9.
WaveCut == Norm(9, 10)

\* A slip in the cut: rows at exactly 0.9 kept as well.
ShortInclusive(rows) == SelectSeq(rows, LAMBDA r : FLe(r["wave"], WaveCut))

\* short = table2[table2['wave'] < 0.9]
Short(rows) == SelectSeq(rows, LAMBDA r : FLt(r["wave"], WaveCut))

\* row = [t['wave'][i], t['waveMin'][i], t['yval'][i], t['yerrLow'][i], order]
ErsRow(r, order) ==
    [wave |-> r["wave"], wave_err |-> r["waveMin"], dppm |-> r["yval"],
     dppm_err |-> r["yerrLow"], order |-> order]

\* The rows added by one loop over a table.
AddRows(rows, order) == [i \in 1..Len(rows) |-> ErsRow(rows[i], order)]

\* The call's result on the file system f: the outcome and the file system
\* it leaves.
ExotepResult(f, filename1, filename2, filename) ==
    LET table1 == f[filename1]
        table2 == f[filename2]
        fail(e) == [outcome |-> e, fs |-> f]
    IN  IF table1 = Absent THEN fail(FileNotFoundError(filename1))
        ELSE IF table2 = Absent THEN fail(FileNotFoundError(filename2))
        ELSE IF Len(table1.rows) > 0 /\ FirstMissing(table1) # 0
             THEN fail(KeyError(ExotepColumns[FirstMissing(table1)]))
        ELSE IF "wave" \notin table2.cols THEN fail(KeyError("wave"))
        ELSE IF Len(Short(table2.rows)) > 0 /\ FirstMissing(table2) # 0
             THEN fail(KeyError(ExotepColumns[FirstMissing(table2)]))
        ELSE LET tab == Csv(Range(ErsColumns),
                            AddRows(table1.rows, 1) \o AddRows(Short(table2.rows), 2))
             IN  [outcome |-> Return(tab), fs |-> [f EXCEPT ![filename] = tab]]

Files == {"order1.csv", "order2.csv", "ers.csv"}

Waves == {Norm(7, 10), Norm(8, 10), WaveCut, F(1)}

\* The rows of an exotep table with the columns cols: the wavelength varies,
\* the other columns hold one value each, different per column.
RowsOf(cols) ==
    {[c \in cols |-> IF c = "wave" THEN w
                     ELSE IF c = "waveMin" THEN Norm(1, 100)
                     ELSE IF c = "yval" THEN F(250)
                     ELSE F(30)] : w \in Waves}

TablesOf(cols) == {Csv(cols, rows) : rows \in UNION {[1..n -> RowsOf(cols)] : n \in 0..MaxRows}}

\* Input files: well-formed exotep tables, tables lacking a column, no file.
InputFiles ==
    TablesOf(Range(ExotepColumns))
        \cup TablesOf(Range(ExotepColumns) \ {"wave"})
        \cup TablesOf(Range(ExotepColumns) \ {"yerrLow"})
        \cup {Absent}

\* What the destination may hold before the call: nothing, or an older result.
OldResult == Csv(Range(ErsColumns), <<ErsRow(CHOOSE r \in RowsOf(Range(ExotepColumns)) : TRUE, 1)>>)

ExotepCalls ==
    {[fn |-> "exotep_to_ers_format",
      args |-> [filename1 |-> c[1], filename2 |-> c[2], filename |-> c[3]]] :
        c \in {"order1.csv", "order2.csv"} \X {"order1.csv", "order2.csv"}
                \X {"ers.csv", "order1.csv"}}

exotep_to_ers_format ==
    /\ call.fn = "exotep_to_ers_format"
    /\ outcome = Pending
    /\ LET r == ExotepResult(fs, call.args.filename1, call.args.filename2,
                             call.args.filename)
       IN  outcome' = r.outcome /\ fs' = r.fs
    /\ UNCHANGED <<call, plotted, texts>>

InitExotep ==
    /\ call \in ExotepCalls
    /\ outcome = Pending
    /\ fs \in {[n \in Files |-> IF n = "order1.csv" THEN c[1]
                                 ELSE IF n = "order2.csv" THEN c[2] ELSE c[3]] :
                 c \in InputFiles \X InputFiles \X {Absent, OldResult}}
    /\ plotted = <<>>
    /\ texts = <<>>

NextExotep == exotep_to_ers_format

SpecExotep == InitExotep /\ [][NextExotep]_vars

(***************************************************************************)
(* Claims about exotep_to_ers_format                                       *)
(***************************************************************************)
\* The call under way reads two existing tables.
ExotepStep ==
    /\ call.fn = "exotep_to_ers_format"
    /\ outcome = Pending
    /\ outcome' # Pending
    /\ fs[call.args.filename1] # Absent
    /\ fs[call.args.filename2] # Absent

HasColumns(table) == Range(ExotepColumns) \subseteq table.cols

\* C5: for two tables having the four columns the output has
\* len(table 1) + #{rows of table 2 with wave < 0.9} rows: first every row of
\* table 1 in input order with order 1, then the table-2 rows with wave < 0.9
\* in input order with order 2, and (wave, waveMin, yval, yerrLow) go to
\* (wave, wave_err, dppm, dppm_err) unchanged.
C5_OutputTable ==
    [][(ExotepStep /\ HasColumns(fs[call.args.filename1])
                   /\ HasColumns(fs[call.args.filename2])) =>
        LET t1   == fs[call.args.filename1].rows
            t2   == fs[call.args.filename2].rows
            kept == {i \in 1..Len(t2) : FLt(t2[i]["wave"], Norm(9, 10))}
            \* the position in the output of the kept row i of table 2
            pos(i) == Len(t1) + Cardinality({k \in kept : k <= i})
        IN  /\ outcome'.kind = "return"
            /\ LET out == outcome'.value.rows
               IN  /\ Len(out) = Len(t1) + Cardinality(kept)
                   /\ \A i \in 1..Len(t1) :
                         out[i] = [wave |-> t1[i]["wave"], wave_err |-> t1[i]["waveMin"],
                                   dppm |-> t1[i]["yval"], dppm_err |-> t1[i]["yerrLow"],
                                   order |-> 1]
                   /\ \A i \in kept :
                         out[pos(i)] = [wave |-> t2[i]["wave"], wave_err |-> t2[i]["waveMin"],
                                        dppm |-> t2[i]["yval"], dppm_err |-> t2[i]["yerrLow"],
                                        order |-> 2]
           ]_vars

\* A finished call on two full tables, with two rows of table 1, two
\* different kept rows of table 2, and a table-2 row at exactly 0.9 dropped.
C5_Witness ==
    /\ call.fn = "exotep_to_ers_format"
    /\ outcome.kind = "return"
    /\ call.args.filename = "ers.csv"
    /\ call.args.filename1 # call.args.filename2
    /\ HasColumns(fs[call.args.filename1])
    /\ Len(fs[call.args.filename1].rows) = 2
    /\ LET t2 == fs[call.args.filename2].rows
       IN  \E i \in 1..Len(t2) : t2[i]["wave"] = WaveCut
    /\ LET out == outcome.value.rows
       IN  /\ Len(out) = 3
           /\ out[3].order = 2

\* C6: when either table lacks one of the four columns the call ends in a
\* schema-mismatch error and leaves the file system as it was.
C6_SchemaErrorAllOrNothing ==
    [][(ExotepStep /\ (~HasColumns(fs[call.args.filename1])
                       \/ ~HasColumns(fs[call.args.filename2]))) =>
        (outcome'.kind = "SchemaMismatchError" /\ fs' = fs)]_vars

(***************************************************************************)
(* nirhiss/utils.py: chromatic_writer                                      *)
(***************************************************************************)
MaxTimes == 3
MaxChannels == 3

ValueError(msg) == [kind |-> "ValueError", msg |-> msg]

\* A numpy array: its number of dimensions (1 or 2) and its nested values.
Array(ndim, data) == [ndim |-> ndim, data |-> data]

Shape(a) == IF a.ndim = 1 THEN <<Len(a.data)>> ELSE <<Len(a.data), Len(a.data[1])>>

\* np.asanyarray([time, wavelength, flux, var]) inside np.save.  time and
\* wavelength have one dimension and flux and var two, so the list is ragged.
\* numpy >= 1.24 refuses a ragged list.  Older releases build a 1-d array of
\* 4 objects, unless the four leading dimensions agree: then they settle on
\* the shape (4, T) and fail to fit flux into a row.
AsAnyArray(items, numpy) ==
    IF \A i, k \in 1..Len(items) : Shape(items[i]) = Shape(items[k])
    THEN [kind |-> "array", dtype |-> "float64",
          shape |-> <<Len(items)>> \o Shape(items[1]), items |-> items]
    ELSE IF numpy = "modern" THEN ValueError("inhomogeneous shape")
    ELSE IF \A i, k \in 1..Len(items) : Shape(items[i])[1] = Shape(items[k])[1]
         THEN ValueError("could not broadcast input array")
    ELSE [kind |-> "array", dtype |-> "object", shape |-> <<Len(items)>>,
          items |-> items]

\* A file opened for writing and closed with nothing written.
EmptyFile == [kind |-> "empty"]

\* An .npy file: the header (dtype, shape) and the payload, pickled for an
\* object array.
NpyFile(arr) ==
    [kind |-> "npy", dtype |-> arr.dtype, shape |-> arr.shape,
     pickled |-> (arr.dtype = "object"), payload |-> arr.items]

\* np.save(file, arr): the file is opened for writing first, then arr is
\* converted and written; a failed conversion leaves the file empty.
NpSave(f, file, items, numpy) ==
    LET arr == AsAnyArray(items, numpy)
    IN  IF arr.kind = "ValueError"
        THEN [outcome |-> arr, fs |-> [f EXCEPT ![file] = EmptyFile]]
        ELSE [outcome |-> Return(None), fs |-> [f EXCEPT ![file] = NpyFile(arr)]]

\* filename + '.npy'
NpyName(filename) == filename \o ".npy"

Ramp(n) == [i \in 1..n |-> F(i)]

\* Arrays of shape (T, W).
Grid2(T, W) == [1..T -> [1..W -> {F(1), F(2)}]]

\* The calls on up to maxT times and maxW channels; the numpy release
\* installed is part of the call's environment.
WriterCalls(maxT, maxW) ==
    {[fn |-> "chromatic_writer", numpy |-> c[1],
      args |-> [filename |-> c[2], time |-> Array(1, Ramp(Len(c[3]))),
                wavelength |-> Array(1, Ramp(Len(c[3][1]))), flux |-> Array(2, c[3]),
                var |-> Array(2, [t \in 1..Len(c[3]) |->
                                    [w \in 1..Len(c[3][1]) |-> F(4)]])]] :
        c \in {"legacy", "modern"} \X {"lc", "lc2"}
                \X UNION {Grid2(T, W) : T \in 2..maxT, W \in 2..maxW}}

chromatic_writer ==
    /\ call.fn = "chromatic_writer"
    /\ outcome = Pending
    /\ LET a == call.args
           r == NpSave(fs, NpyName(a.filename),
                       <<a.time, a.wavelength, a.flux, a.var>>, call.numpy)
       IN  outcome' = r.outcome /\ fs' = r.fs
    /\ UNCHANGED <<call, plotted, texts>>

InitWriter ==
    /\ call \in WriterCalls(MaxTimes, MaxChannels)
    /\ outcome = Pending
    /\ fs \in [{"lc.npy", "lc2.npy"} -> {Absent}]
    /\ plotted = <<>>
    /\ texts = <<>>

NextWriter == chromatic_writer

SpecWriter == InitWriter /\ [][NextWriter]_vars

(***************************************************************************)
(* Claims about chromatic_writer                                           *)
(***************************************************************************)
\* np.load(file, allow_pickle=True) of what the reader finds on disk.
NpLoad(content) ==
    IF content.kind = "npy" THEN Return(content.payload)
    ELSE [kind |-> "error"]

\* C7: loading filename+'.npy' after chromatic_writer yields the four
\* components time, wavelength, flux, var, equal to the originals, in order.
C7_RoundTrip ==
    (call.fn = "chromatic_writer" /\ outcome # Pending) =>
        /\ outcome.kind = "return"
        /\ NpLoad(fs[NpyName(call.args.filename)]) =
              Return(<<call.args.time, call.args.wavelength, call.args.flux,
                       call.args.var>>)

(***************************************************************************)
(* niriss/plotting.py: stacked_transits                                    *)
(***************************************************************************)
MaxCenters == 3
PlotTimes == 2
PlotChannels == 2

\* wave_offset = 0.5
wave_offset == Norm(1, 2)

\* The variance summed over time above which a channel is left out: 1e7.
VarianceCut == 10000000

\* The divisor of the summed flux and of the error: 1e6.
Micro == 1000000

\* x += 15: the step through the colour table.
ColorStep == 15

\* spec[210:]: where the slice whose median places the text begins.
TextTail == 210

IndexError(what, index) == [kind |-> "IndexError", of |-> what, index |-> index]

SeqOf(f, S) == LET px == Flatten({<<1, w>> : w \in S}) IN [k \in 1..Len(px) |-> f[px[k][2]]]

\* q = np.where((wavelength >= center - wave_offset) &
\*              (wavelength <= center + wave_offset) &
\*              (np.nansum(variance, axis=0) < 1e7))[0]
Selected(a, center) ==
    {w \in 1..Len(a.wavelength) :
        /\ FLe(FSub(center, wave_offset), a.wavelength[w])
        /\ FLe(a.wavelength[w], FAdd(center, wave_offset))
        /\ FLt(NanSum([t \in 1..Len(a.variance) |-> a.variance[t][w]]), F(VarianceCut))}

\* spec = np.nansum(flux[:,q], axis=1)/1e6
SummedFlux(a, q) ==
    [t \in 1..Len(a.flux) |-> FDiv(NanSum(SeqOf(a.flux[t], q)), F(Micro))]

\* np.nansum(variance[:,q]**2, axis=1): the radicand of yerr.
SummedVar2(a, q) ==
    [t \in 1..Len(a.variance) |->
        NanSum(SeqOf([w \in 1..Len(a.variance[t]) |->
                         FMul(a.variance[t][w], a.variance[t][w])], q))]

\* A slip: a zero median leaves the series as it is.
NormalizeGuarded(series, median) ==
    [t \in 1..Len(series) |-> IF median = F(0) THEN series[t] ELSE FDiv(series[t], median)]

\* spec /= np.nanmedian(spec)
Normalize(series, median) == [t \in 1..Len(series) |-> FDiv(series[t], median)]

\* yerr = np.sqrt(radicand)/1e6, then yerr /= np.nanmedian(spec).  The root is
\* irrational, so the error is kept as its square,
\* radicand / (1e6 * median)**2; the model's fluxes are not negative, so the
\* sign of the median is not lost.
NormalizedErr2(radicand, median) ==
    LET d == FMul(F(Micro), median)
    IN  [t \in 1..Len(radicand) |-> FDiv(radicand[t], FMul(d, d))]

\* A slip: the offset grows instead of shrinking.
NextOffsetUp(offset, offset_delta) == FAdd(offset, offset_delta)

\* offset -= offset_delta
NextOffset(offset, offset_delta) == FSub(offset, offset_delta)

\* spec[TextTail:]
Slice(series, from) == [k \in 1..(IF Len(series) > from THEN Len(series) - from ELSE 0) |->
                           series[from + k]]

\* The loop over the centers from the i-th on: st holds the loop's variables
\* (offset, x) and what the axes have been given so far.
RECURSIVE StackedLoop(_, _, _)
StackedLoop(a, i, st) ==
    IF i > Len(a.centers) THEN [st EXCEPT !.outcome = Return("fig")]
    ELSE
      LET center == a.centers[i]
          q      == Selected(a, center)
          spec0  == SummedFlux(a, q)
          median == NanMedian(spec0)
          yerr2  == NormalizedErr2(SummedVar2(a, q), median)
          spec   == Normalize(spec0, median)
          series == [center |-> center, offset |-> st.offset, color |-> st.x,
                     y |-> [t \in 1..Len(spec) |-> FSub(spec[t], st.offset)],
                     yerr2 |-> yerr2]
          label  == [x |-> a.time[a.time_ind + 1],
                     y |-> FAdd(FSub(NanMedian(Slice(spec, TextTail)), st.offset),
                                Norm(1, 1000)),
                     s |-> center]
      IN  IF st.x >= a.ncolors
          THEN [st EXCEPT !.outcome = IndexError("colors", st.x)]
          ELSE IF a.text /\ a.time_ind >= Len(a.time)
          THEN [st EXCEPT !.plotted = Append(st.plotted, series),
                          !.outcome = IndexError("time", a.time_ind)]
          ELSE StackedLoop(a, i + 1,
                  [st EXCEPT !.plotted = Append(st.plotted, series),
                             !.texts = IF a.text THEN Append(st.texts, label)
                                       ELSE st.texts,
                             !.offset = NextOffset(st.offset, a.offset_delta),
                             !.x = st.x + ColorStep])

StackedResult(a) ==
    StackedLoop(a, 1, [offset |-> a.offset, x |-> 0, plotted |-> <<>>,
                       texts |-> <<>>, outcome |-> Pending])

\* Channels at 1.0, 1.5, 2.0, ... micron.
Wavelengths(W) == [w \in 1..W |-> Norm(5 + 5 * w, 10)]

\* Flux arrays: constant, varying, all zero, and with a not-a-number value.
Fluxes(T, W) ==
    {[t \in 1..T |-> [w \in 1..W |-> F(3)]],
     [t \in 1..T |-> [w \in 1..W |-> F(2 * t + w)]],
     [t \in 1..T |-> [w \in 1..W |-> F(0)]],
     [t \in 1..T |-> [w \in 1..W |-> IF t = 1 /\ w = 1 THEN NaN ELSE F(3)]]}

\* Variances: quiet channels, and channel 1 too noisy to be selected.
Variances(T, W) ==
    {[t \in 1..T |-> [w \in 1..W |-> F(2)]],
     [t \in 1..T |-> [w \in 1..W |-> IF w = 1 THEN F(VarianceCut) ELSE F(2)]]}

\* Centers: 1.0 reaches the channels at 1.0 and 1.5, 3.5 reaches none.
Centers == UNION {[1..n -> {F(1), Norm(7, 2)}] : n \in 0..MaxCenters}

\* The calls on up to maxT times and maxW channels; the length of the colour
\* table loaded at import (lines 24-25) is part of the call's environment.
StackedCalls(maxT, maxW) ==
    {[fn |-> "stacked_transits",
      args |-> [time |-> Ramp(Len(c[1])), wavelength |-> Wavelengths(Len(c[1][1])),
                flux |-> c[1], variance |-> c[2], centers |-> c[3],
                offset |-> Norm(5, 100), offset_delta |-> c[4], text |-> c[5][1],
                time_ind |-> c[5][2], ncolors |-> c[6]]] :
        c \in UNION {Fluxes(T, W) \X Variances(T, W) \X Centers
                        \X {F(0), Norm(5, 1000)}
                        \X {<<FALSE, 230>>, <<TRUE, 0>>, <<TRUE, 230>>}
                        \X {20, 256} :
                     T \in 1..maxT, W \in 1..maxW}}

stacked_transits ==
    /\ call.fn = "stacked_transits"
    /\ outcome = Pending
    /\ LET r == StackedResult(call.args)
       IN  outcome' = r.outcome /\ plotted' = r.plotted /\ texts' = r.texts
    /\ UNCHANGED <<call, fs>>

InitPlot ==
    /\ call \in StackedCalls(PlotTimes, PlotChannels)
    /\ outcome = Pending
    /\ fs = <<>>
    /\ plotted = <<>>
    /\ texts = <<>>

NextPlot == stacked_transits

SpecPlot == InitPlot /\ [][NextPlot]_vars

(***************************************************************************)
(* Claims about stacked_transits                                           *)
(***************************************************************************)
StackedDone == call.fn = "stacked_transits" /\ outcome # Pending

\* The channels within 0.5 of the center whose variance summed over time is
\* below 1e7.
ClaimedSelection(a, center) ==
    {w \in 1..Len(a.wavelength) :
        /\ ~FLt(a.wavelength[w], FSub(center, Norm(1, 2)))
        /\ ~FLt(FAdd(center, Norm(1, 2)), a.wavelength[w])
        /\ FLt(NanSum([t \in 1..Len(a.variance) |-> a.variance[t][w]]), F(10000000))}

ConstantPositiveFlux(a) ==
    \E c \in {a.flux[1][1]} :
        /\ ~IsNaN(c) /\ FLt(F(0), c)
        /\ \A t \in 1..Len(a.flux) : \A w \in 1..Len(a.flux[t]) : a.flux[t][w] = c

\* offset - i*offset_delta for the i-th center, i = 0, 1, ...
ClaimedOffset(a, i) == FSub(a.offset, FMul(F(i), a.offset_delta))

\* C8: the i-th center (i = 0, 1, ...) is drawn with the offset
\* offset - i*offset_delta, so for offset_delta > 0 successive offsets
\* decrease strictly in steps of offset_delta; and for a flux constant and
\* positive over all channels and times, a center with at least one channel
\* selected is drawn flat at 1 minus its offset.
C8_OffsetsAndFlatSeries ==
    StackedDone =>
        LET a == call.args
        IN  /\ \A i \in 1..Len(plotted) : plotted[i].offset = ClaimedOffset(a, i - 1)
            /\ FLt(F(0), a.offset_delta) =>
                  \A i \in 1..(Len(plotted) - 1) :
                     /\ FLt(plotted[i + 1].offset, plotted[i].offset)
                     /\ FSub(plotted[i].offset, plotted[i + 1].offset) = a.offset_delta
            /\ ConstantPositiveFlux(a) =>
                  \A i \in 1..Len(plotted) :
                     ClaimedSelection(a, a.centers[i]) # {} =>
                        \A t \in 1..Len(a.time) :
                           plotted[i].y[t] = FSub(F(1), ClaimedOffset(a, i - 1))

\* A finished call with a positive delta that drew three centers, the last
\* one with channels selected from a constant positive flux.
C8_Witness ==
    /\ StackedDone
    /\ outcome.kind = "return"
    /\ FLt(F(0), call.args.offset_delta)
    /\ Len(plotted) = 3
    /\ ConstantPositiveFlux(call.args)
    /\ ClaimedSelection(call.args, call.args.centers[3]) # {}
    /\ plotted[3].y[1] = Norm(96, 100)

\* C9 as stated: for a center with no channel selected no series whose
\* values come from the division by the zero median is drawn.
C9_EmptySelectionNotPlotted ==
    StackedDone =>
        \A i \in 1..Len(plotted) :
            ClaimedSelection(call.args, call.args.centers[i]) = {} =>
                \E t \in 1..Len(plotted[i].y) : ~IsNaN(plotted[i].y[t])

\* The only failures of the model: the colour table is too short for a
\* center, or the text is placed at a time index past the end.
OtherFailure(a) ==
    \/ \E i \in 1..Len(a.centers) : (i - 1) * 15 >= a.ncolors
    \/ a.text /\ Len(a.centers) > 0 /\ a.time_ind >= Len(a.time)

\* C9 amended: a center with no channel selected is still drawn, as a
\* series whose every value and every error bar is NaN (0/0 by the zero
\* median), with the offset of its position; the empty selection raises no
\* error, and every center after it is processed.
C9_EmptySelectionDrawnAsNaN ==
    StackedDone =>
        LET a == call.args
        IN  /\ \A i \in 1..Len(plotted) :
                  ClaimedSelection(a, a.centers[i]) = {} =>
                     /\ Len(plotted[i].y) = Len(a.time)
                     /\ \A t \in 1..Len(a.time) :
                           IsNaN(plotted[i].y[t]) /\ IsNaN(plotted[i].yerr2[t])
                     /\ plotted[i].offset = ClaimedOffset(a, i - 1)
            /\ ~OtherFailure(a) =>
                  /\ outcome.kind = "return"
                  /\ Len(plotted) = Len(a.centers)
                  /\ \A i \in 1..Len(plotted) : plotted[i].center = a.centers[i]

\* A finished call whose first center selected no channel and whose second
\* center, with channels, was drawn after it.
C9_Witness ==
    /\ StackedDone
    /\ outcome.kind = "return"
    /\ Len(plotted) >= 2
    /\ ClaimedSelection(call.args, call.args.centers[1]) = {}
    /\ IsNaN(plotted[1].y[1])
    /\ ClaimedSelection(call.args, call.args.centers[2]) # {}
    /\ ~IsNaN(plotted[2].y[1])

=============================================================================
